---------------------------- MODULE Spec2Model ----------------------------
(***************************************************************************)
(* A model of the ibind-based store of backtrader                          *)
(* (backtrader/stores/ibstore_ibind.py) and of the broker that drives it   *)
(* (backtrader/brokers/ibbroker_ibind.py).                                 *)
(*                                                                         *)
(* The store is a singleton object; its fields are the variables below.    *)
(* Methods are modelled as the class has them once the module has been     *)
(* imported: the assignments at the end of ibstore_ibind.py                *)
(* (IBStoreIbind.placeOrder = placeOrder, ...) rebind several methods of   *)
(* the class body, and a call through the store reaches the rebound one.   *)
(***************************************************************************)
EXTENDS Integers, Sequences, FiniteSets, TLC

(***************************************************************************)
(* Bounds of the model.                                                    *)
(***************************************************************************)
MaxQueues == 3      \* queue.Queue() objects created
MaxTickers == 3     \* ticker ids drawn from _tickerId
MaxQLen == 1        \* items a queue may hold before cancelQueue adds a None
MaxBars == 2        \* bars a historical fetch returns
MaxOrderIds == 2    \* calls of nextOrderId
MaxTicks == 2       \* milliseconds that pass
MaxNotifs == 2      \* notifications put on the broker's queue

(***************************************************************************)
(* Program constants.                                                      *)
(***************************************************************************)
REQIDBASE == 16777216           \* 0x01000000
OrderIdModulus == 2147483647    \* nextOrderId: ... % 2147483647

\* Python's None, where it is stored as a key or a value among integers.
None == -1

\* The None item put on a queue.
NoneMsg == [kind |-> "None"]

VARIABLES
    qs,             \* self.qs: tickerId -> queue
    ts,             \* self.ts: queue -> tickerId
    iscash,         \* self.iscash: tickerId -> False (0) / True (1) / 2 / None
    _tickerId,      \* self._tickerId: the value itertools.count yields next
    nq,             \* queue objects created so far; queue k is the k-th
    qc,             \* contents of each queue object
    rest_client,    \* self.rest_client is not None
    _symbol_cache,  \* self._symbol_cache: symbol -> conid
    ws_subscriptions,       \* self.ws_subscriptions: tickerId -> conid
    market_data_queues,     \* self.market_data_queues: conid -> queue
    dontreconnect,  \* self.dontreconnect
    ws_client,      \* self.ws_client is not None
    contract_mapper,        \* self.contract_mapper is not None
    _running,       \* self._running
    broker,         \* self.broker is not None
    datas,          \* len(self.datas)
    managed_accounts,       \* self.managed_accounts
    _event_managed_accounts,    \* self._event_managed_accounts is set
    ws_attrs,       \* _initialize_ws_client has set the attributes it creates
                    \* (_ws_thread, _account_update_thread, ws_subscriptions,
                    \* market_data_queues, order_mapper)
    contract_cache, \* contract_mapper.contract_cache: key -> conid
    conid_cache,    \* contract_mapper.conid_cache: conid -> contract data
    _event_accdownload,     \* self._event_accdownload is set
    acc_cash,       \* self.acc_cash: account -> cash
    acc_value,      \* self.acc_value: account -> net liquidation value
    order_id_mapping,       \* order_mapper.order_id_mapping: local -> remote
    reverse_mapping,        \* order_mapper.reverse_mapping: remote -> local
    orderbyid,      \* the broker's orderbyid: ref -> the order stored under it
    norders,        \* orders the broker has created; order k is the k-th
    orderIds,       \* the values nextOrderId() has returned, in order
    time_ms,        \* int(time.time() * 1000), kept modulo OrderIdModulus
    ticks,          \* milliseconds elapsed since Init
    _lock_q,        \* self._lock_q: the thread that holds it, or NoThread
    _lock_accupd,   \* self._lock_accupd: the thread that holds it
    _lock_pos,      \* self._lock_pos: the thread that holds it
    canceller,      \* a caller's thread inside cancelMktData or cancelQueue
    pump,           \* the thread of _ws_message_handler
    poller,         \* the thread of _account_update_handler
    timer_armed,    \* a threading.Timer for reqCurrentTime is armed
    notifs,         \* the broker's notifs queue
    next_pc,        \* where a call of IBBroker.next() stands
    orderinfo,      \* order k's ordtype and m_action, and the method that
                    \* created it
    last            \* the most recent call: its arguments and what it returned

registry == <<qs, ts, iscash, _tickerId, nq, qc>>
mktdata == <<ws_subscriptions, market_data_queues>>
client == <<rest_client, _symbol_cache>>
session == <<dontreconnect, ws_client, contract_mapper, _running, broker,
             datas, managed_accounts, _event_managed_accounts, ws_attrs,
             contract_cache, conid_cache>>
account == <<_event_accdownload, acc_cash, acc_value>>
orders == <<order_id_mapping, reverse_mapping, orderbyid, norders, orderIds>>
clock == <<time_ms, ticks>>
locks == <<_lock_q, _lock_accupd, _lock_pos>>
threads == <<canceller, pump, poller, timer_armed>>
brokerq == <<notifs, next_pc, orderinfo>>
vars == <<registry, mktdata, client, session, account, orders, clock, locks,
          threads, brokerq, last>>

\* No thread: the value of a lock that is free.
NoThread == ""

\* A thread that is in none of the methods followed step by step.
Idle == [pc |-> "idle", q |-> None, tickerId |-> None, sendnone |-> FALSE]

\* A background thread that was never started.
NotStarted == [pc |-> "none", conid |-> None, q |-> None]

Queues == 1..nq

(***************************************************************************)
(* dict helpers.                                                           *)
(***************************************************************************)
Empty == [x \in {} |-> None]

Put(m, k, v) == [x \in (DOMAIN m) \cup {k} |-> IF x = k THEN v ELSE m[x]]

\* m.pop(k, None): the dict without k
Pop(m, k) == [x \in (DOMAIN m) \ {k} |-> m[x]]

\* m.get(k, None)
Get(m, k) == IF k \in DOMAIN m THEN m[k] ELSE None

\* q.put(item) on queue object q
QPut(c, q, item) == [c EXCEPT ![q] = Append(@, item)]

NoCall == [op |-> "none", q |-> None, tickerId |-> None, flag |-> FALSE,
           symbol |-> "", bound |-> FALSE,
           orderid |-> None, connected |-> FALSE, attached |-> FALSE,
           outcome |-> "",
           retId |-> None, retQ |-> None, ret |-> None, raised |-> FALSE,
           requests |-> <<>>, events |-> <<>>,
           contract |-> None, candidates |-> <<>>, conid |-> "", msgs |-> <<>>]

(***************************************************************************)
(* Ticker/queue registry.  The registry fields are gathered in a record r  *)
(* so that a method which calls another (reqMktData calls getTickerQueue   *)
(* and cancelQueue) is the composition of their effects.                   *)
(***************************************************************************)
Reg == [qs |-> qs, ts |-> ts, iscash |-> iscash, _tickerId |-> _tickerId,
        nq |-> nq, qc |-> qc]

SetReg(r) ==
    /\ qs' = r.qs
    /\ ts' = r.ts
    /\ iscash' = r.iscash
    /\ _tickerId' = r._tickerId
    /\ nq' = r.nq
    /\ qc' = r.qc

\* queue.Queue(): the next queue object, empty
NewQueue(r) == [r EXCEPT !.nq = r.nq + 1,
                         !.qc = [k \in 1..(r.nq + 1) |->
                                    IF k = r.nq + 1 THEN <<>> ELSE r.qc[k]]]

\* nextTickerId(): next(self._tickerId)
nextTickerId(r) == [r |-> [r EXCEPT !._tickerId = r._tickerId + 1],
                    ret |-> r._tickerId]

\* getTickerQueue that returns the queue of start=True empty.
GetTickerQueueNoSentinel(r, start) ==
    LET r1 == NewQueue(r)
        q == r1.nq
    IN  IF start
        THEN [r |-> r1, retId |-> None, retQ |-> q]
        ELSE LET t == nextTickerId(r1) IN
             [r |-> [t.r EXCEPT !.qs = Put(t.r.qs, t.ret, q),
                                !.ts = Put(t.r.ts, q, t.ret),
                                !.iscash = Put(t.r.iscash, t.ret, 0)],
              retId |-> t.ret, retQ |-> q]

\* getTickerQueue(start): a new queue; with start it is returned holding one
\* None and is not registered, otherwise it is registered under a new id.
GetTickerQueue(r, start) ==
    LET r1 == NewQueue(r)
        q == r1.nq
    IN  IF start
        THEN [r |-> [r1 EXCEPT !.qc = QPut(r1.qc, q, NoneMsg)],
              retId |-> None, retQ |-> q]
        ELSE LET t == nextTickerId(r1) IN
             [r |-> [t.r EXCEPT !.qs = Put(t.r.qs, t.ret, q),
                                !.ts = Put(t.r.ts, q, t.ret),
                                !.iscash = Put(t.r.iscash, t.ret, 0)],
              retId |-> t.ret, retQ |-> q]

\* reuseQueue(tickerId): the queue of tickerId under a new ticker id
ReuseQueueLost(r, tickerId) ==
    LET q == Get(r.qs, tickerId)
        t == nextTickerId([r EXCEPT !.qs = Pop(r.qs, tickerId),
                                    !.iscash = Pop(r.iscash, tickerId)])
    IN  [r |-> [t.r EXCEPT !.ts = Put(t.r.ts, q, t.ret),
                           !.qs = Put(t.r.qs, t.ret, q),
                           !.iscash = Put(t.r.iscash, t.ret, 0)],
         retId |-> t.ret, retQ |-> q]

ReuseQueue(r, tickerId) ==
    LET q == Get(r.qs, tickerId)
        flag == Get(r.iscash, tickerId)
        t == nextTickerId([r EXCEPT !.qs = Pop(r.qs, tickerId),
                                    !.iscash = Pop(r.iscash, tickerId)])
    IN  [r |-> [t.r EXCEPT !.ts = Put(t.r.ts, q, t.ret),
                           !.qs = Put(t.r.qs, t.ret, q),
                           !.iscash = Put(t.r.iscash, t.ret, flag)],
         retId |-> t.ret, retQ |-> q]

\* cancelQueue(q, sendnone)
CancelQueueKeepQs(r, q, sendnone) ==
    [r EXCEPT !.ts = Pop(r.ts, q),
              !.iscash = Pop(r.iscash, Get(r.ts, q)),
              !.qc = IF sendnone THEN QPut(r.qc, q, NoneMsg) ELSE r.qc]

CancelQueueSilentUnknown(r, q, sendnone) ==
    LET tickerId == Get(r.ts, q) IN
    [r EXCEPT !.ts = Pop(r.ts, q),
              !.qs = Pop(r.qs, tickerId),
              !.iscash = Pop(r.iscash, tickerId),
              !.qc = IF sendnone /\ q \in DOMAIN r.ts
                     THEN QPut(r.qc, q, NoneMsg) ELSE r.qc]

CancelQueueKeepTs(r, q, sendnone) ==
    [r EXCEPT !.qs = Pop(r.qs, Get(r.ts, q)),
              !.iscash = Pop(r.iscash, Get(r.ts, q)),
              !.qc = IF sendnone THEN QPut(r.qc, q, NoneMsg) ELSE r.qc]

CancelQueue(r, q, sendnone) ==
    LET tickerId == Get(r.ts, q) IN
    [r EXCEPT !.ts = Pop(r.ts, q),
              !.qs = Pop(r.qs, tickerId),
              !.iscash = Pop(r.iscash, tickerId),
              !.qc = IF sendnone THEN QPut(r.qc, q, NoneMsg) ELSE r.qc]

\* validQueue(q)
validQueue(q) == q \in DOMAIN ts

\* What the bounds leave room for.
RoomForQueue == nq < MaxQueues
RoomForTicker == _tickerId < REQIDBASE + MaxTickers
RoomInQueue(q) == Len(qc[q]) < MaxQLen

getTickerQueue(start) ==
    /\ ~start => _lock_q = NoThread
    /\ UNCHANGED <<locks, threads, brokerq>>
    /\ RoomForQueue
    /\ ~start => RoomForTicker
    /\ LET g == GetTickerQueue(Reg, start) IN
       /\ SetReg(g.r)
       /\ last' = [NoCall EXCEPT !.op = "getTickerQueue", !.flag = start,
                                 !.retId = g.retId, !.retQ = g.retQ]
    /\ UNCHANGED <<client, mktdata, session, account, orders, clock>>

reuseQueue(tickerId) ==
    /\ _lock_q = NoThread
    /\ UNCHANGED <<locks, threads, brokerq>>
    /\ RoomForTicker
    /\ LET g == ReuseQueue(Reg, tickerId) IN
       /\ SetReg(g.r)
       /\ last' = [NoCall EXCEPT !.op = "reuseQueue", !.tickerId = tickerId,
                                 !.bound = tickerId \in DOMAIN qs,
                                 !.retId = g.retId, !.retQ = g.retQ]
    /\ UNCHANGED <<client, mktdata, session, account, orders, clock>>

cancelQueue(q, sendnone) ==
    /\ UNCHANGED <<locks, threads, brokerq>>
    /\ sendnone => RoomInQueue(q)
    /\ SetReg(CancelQueue(Reg, q, sendnone))
    /\ last' = [NoCall EXCEPT !.op = "cancelQueue", !.q = q, !.flag = sendnone,
                              !.bound = validQueue(q)]
    /\ UNCHANGED <<client, mktdata, session, account, orders, clock>>

(***************************************************************************)
(* Symbol resolution and the REST client.                                  *)
(***************************************************************************)
Symbols == {"AAPL", "EUR"}

\* The conid the backend knows a symbol by.
ConidOf(symbol) == IF symbol = "AAPL" THEN 1 ELSE 2

\* m_secType as makecontract sets it (bytes), and in text form.
SecTypes == {"b'STK'", "b'CASH'", "b'CFD'", "CASH"}

\* How a request to the backend ends.
Outcomes == {"ok", "none", "raise"}

\* _initialize_rest_client(): creates the client if there is none; ok is
\* whether the import and the construction of IbkrClient succeed.
InitializeRestClient(rest, ok) ==
    IF rest THEN [rest |-> TRUE, raised |-> FALSE]
    ELSE IF ok THEN [rest |-> TRUE, raised |-> FALSE]
    ELSE [rest |-> FALSE, raised |-> TRUE]

\* resolve_symbol_to_conid(symbol): the cached conid, or the backend's answer
\* (cached when there is one); None when anything raises.
ResolveSymbolToConid(cache, rest, symbol, initOk, out) ==
    IF symbol \in DOMAIN cache
    THEN [conid |-> cache[symbol], cache |-> cache, rest |-> rest,
          requests |-> <<>>]
    ELSE LET i == InitializeRestClient(rest, initOk) IN
         IF i.raised
         THEN [conid |-> None, cache |-> cache, rest |-> i.rest,
               requests |-> <<>>]
         ELSE [conid |-> IF out = "ok" THEN ConidOf(symbol) ELSE None,
               cache |-> IF out = "ok" THEN Put(cache, symbol, ConidOf(symbol))
                         ELSE cache,
               rest |-> i.rest,
               requests |-> <<"stock_conid_by_symbol">>]

\* The cash-market flag reqMktData gives a new subscription.
CashFlag(secType, what) ==
    IF secType \in {"b'CASH'", "b'CFD'"}
    THEN (IF what = "ASK" THEN 2 ELSE 1)
    ELSE 0

\* reqMktData(contract, what); symbol "" stands for a contract without one.
\* self.ws_subscriptions exists only once _initialize_ws_client has run:
\* without it the assignment in the try block raises and the except clause
\* cancels the queue just registered.
reqMktData(symbol, secType, what, initOk, out) ==
    /\ _lock_q = NoThread
    /\ UNCHANGED <<locks, threads, brokerq>>
    /\ RoomForQueue
    /\ UNCHANGED <<session, account, orders, clock>>
    /\ LET c == IF symbol = ""
                THEN [conid |-> None, cache |-> _symbol_cache,
                      rest |-> rest_client, requests |-> <<>>]
                ELSE ResolveSymbolToConid(_symbol_cache, rest_client, symbol,
                                          initOk, out)
       IN /\ _symbol_cache' = c.cache
          /\ rest_client' = c.rest
          /\ IF c.conid = None
             THEN LET g == GetTickerQueue(Reg, TRUE) IN
                  /\ SetReg(g.r)
                  /\ UNCHANGED mktdata
                  /\ last' = [NoCall EXCEPT !.op = "reqMktData",
                                 !.symbol = symbol, !.retQ = g.retQ,
                                 !.outcome = "unresolved",
                                 !.requests = c.requests]
             ELSE /\ RoomForTicker
                  /\ LET g == GetTickerQueue(Reg, FALSE)
                         f == [g.r EXCEPT !.iscash =
                                  Put(g.r.iscash, g.retId,
                                      CashFlag(secType, what))]
                     IN
                     /\ IF ws_attrs
                        THEN /\ SetReg(f)
                             /\ ws_subscriptions' =
                                   Put(ws_subscriptions, g.retId, c.conid)
                             /\ market_data_queues' =
                                   Put(market_data_queues, c.conid, g.retQ)
                        ELSE /\ SetReg(CancelQueue(f, g.retQ, TRUE))
                             /\ UNCHANGED mktdata
                     /\ last' = [NoCall EXCEPT !.op = "reqMktData",
                                    !.symbol = symbol, !.retId = g.retId,
                                    !.retQ = g.retQ, !.outcome = "resolved",
                                    !.requests = c.requests]

(***************************************************************************)
(* Historical data.                                                        *)
(***************************************************************************)

\* A timestamp of the backend: milliseconds since the epoch.
Millis(n) == [type |-> "int", ms |-> n]

\* datetime.utcfromtimestamp(t / 1000)
UtcFromTimestamp(t) ==
    [type |-> "datetime", second |-> t.ms \div 1000,
     microsecond |-> (t.ms % 1000) * 1000]

\* The bars a fetch may return.
Bars == {[t |-> Millis(1500), o |-> 10, h |-> 12, l |-> 9, c |-> 11, v |-> 70],
         [t |-> Millis(61000), o |-> 11, h |-> 11, l |-> 8, c |-> 9, v |-> 30]}

\* The lists of at most n bars.
RECURSIVE BarLists(_)
BarLists(n) ==
    IF n = 0 THEN {<<>>}
    ELSE BarLists(n - 1) \cup
         {Append(bs, b) : bs \in {x \in BarLists(n - 1) : Len(x) = n - 1},
                          b \in Bars}

\* The message reqHistoricalData builds for a bar: the timestamp becomes a
\* datetime, the other fields are copied.
HistoricalDataMsg(tickerId, bar) ==
    [kind |-> "HistoricalData", reqId |-> tickerId,
     date |-> UtcFromTimestamp(bar.t), open |-> bar.o, high |-> bar.h,
     low |-> bar.l, close |-> bar.c, volume |-> bar.v]

\* The end marker: date is 'finished-' + str(tickerId).
FinishedMsg(tickerId) ==
    [kind |-> "HistoricalData", reqId |-> tickerId,
     date |-> <<"finished-", tickerId>>]

\* The messages of a fetch without the end marker.
HistoricalMessagesNoEnd(tickerId, bars) ==
    [k \in 1..Len(bars) |-> HistoricalDataMsg(tickerId, bars[k])]

\* The messages put for a fetch that returned bars: one per bar in the order
\* of the answer, then the end marker.
HistoricalMessages(tickerId, bars) ==
    Append([k \in 1..Len(bars) |-> HistoricalDataMsg(tickerId, bars[k])],
           FinishedMsg(tickerId))

\* reqHistoricalData(contract, ...); symbol "" stands for a contract without
\* one.  hout is how marketdata_history_by_conid ends, wrapped whether the
\* answer holds the bars in a dict under 'data' or is the list of bars: an
\* empty list is taken for a failed request.
reqHistoricalData(symbol, initOk, out, hout, wrapped, bars) ==
    /\ _lock_q = NoThread
    /\ UNCHANGED <<locks, threads, brokerq>>
    /\ RoomForQueue
    /\ UNCHANGED <<mktdata, session, account, orders, clock>>
    /\ LET c == IF symbol = ""
                THEN [conid |-> None, cache |-> _symbol_cache,
                      rest |-> rest_client, requests |-> <<>>]
                ELSE ResolveSymbolToConid(_symbol_cache, rest_client, symbol,
                                          initOk, out)
       IN /\ _symbol_cache' = c.cache
          /\ rest_client' = c.rest
          /\ IF c.conid = None
             THEN LET g == GetTickerQueue(Reg, TRUE) IN
                  /\ SetReg(g.r)
                  /\ last' = [NoCall EXCEPT !.op = "reqHistoricalData",
                                 !.symbol = symbol, !.retQ = g.retQ,
                                 !.outcome = "unresolved",
                                 !.requests = c.requests]
             ELSE /\ RoomForTicker
                  /\ LET g == GetTickerQueue(Reg, FALSE)
                         got == hout = "ok" /\ (wrapped \/ bars # <<>>)
                         msgs == HistoricalMessages(g.retId, bars)
                     IN
                     /\ IF got
                        THEN SetReg([g.r EXCEPT !.qc[g.retQ] = @ \o msgs])
                        ELSE SetReg(CancelQueue(g.r, g.retQ, TRUE))
                     /\ last' = [NoCall EXCEPT !.op = "reqHistoricalData",
                                    !.symbol = symbol, !.retId = g.retId,
                                    !.retQ = g.retQ,
                                    !.outcome = IF hout = "ok" THEN "fetched"
                                                ELSE "failed",
                                    !.flag = wrapped, !.msgs = bars,
                                    !.requests = c.requests \o
                                       <<"marketdata_history_by_conid">>]

(***************************************************************************)
(* The clock.                                                              *)
(***************************************************************************)

\* The clock reading at construction: a millisecond before its residue
\* reaches REQIDBASE (as it does every 2147483647 ms).
ClockStarts == {REQIDBASE - 1}

\* A millisecond passes.
Tick ==
    /\ UNCHANGED <<locks, threads, brokerq>>
    /\ ticks < MaxTicks
    /\ ticks' = ticks + 1
    /\ time_ms' = (time_ms + 1) % OrderIdModulus
    /\ UNCHANGED <<registry, mktdata, client, session, account, orders, last>>

(***************************************************************************)
(* Order ids and orders.                                                   *)
(***************************************************************************)

\* nextOrderId() (module level, bound to the class in place of the counter
\* of the class body): the clock in milliseconds modulo 2147483647.
NextOrderId(now) == now % OrderIdModulus

nextOrderId ==
    /\ UNCHANGED <<locks, threads, brokerq>>
    /\ Len(orderIds) < MaxOrderIds
    /\ LET id == NextOrderId(time_ms) IN
       /\ orderIds' = Append(orderIds, id)
       /\ last' = [NoCall EXCEPT !.op = "nextOrderId", !.ret = id]
    /\ UNCHANGED <<order_id_mapping, reverse_mapping, orderbyid, norders>>
    /\ UNCHANGED <<registry, mktdata, client, session, account, clock>>

\* IBBroker.createorder: the new order takes the next order id as its ref and
\* is stored in orderbyid under it.
\* IBOrder.Buy, IBOrder.Sell
Buy == 1
Sell == 2

\* IBOrder.__init__(action): ordtype and m_action of the new order; action ""
\* stands for action=None.
IBOrder(action) ==
    [ordtype |-> IF action = "BUY" THEN Buy ELSE Sell,
     m_action |-> IF action # "" THEN action ELSE "BUY"]

\* IBOrder.isbuy(), IBOrder.issell()
isbuy(order) == order.ordtype = Buy
issell(order) == order.ordtype = Sell

\* The body of IBBroker.createorder for a call made by method via: the order
\* is built with action=None, takes the next order id as its ref and is
\* stored in orderbyid under it.
CreateOrder(via) ==
    /\ Len(orderIds) < MaxOrderIds
    /\ LET id == NextOrderId(time_ms) IN
       /\ orderIds' = Append(orderIds, id)
       /\ norders' = norders + 1
       /\ orderbyid' = Put(orderbyid, id, norders + 1)
       /\ orderinfo' = Append(orderinfo,
                              [order |-> IBOrder(""), via |-> via])
       /\ last' = [NoCall EXCEPT !.op = via, !.ret = id,
                                 !.bound = id \in DOMAIN orderbyid,
                                 !.raised = (via # "createorder")]
    /\ UNCHANGED <<order_id_mapping, reverse_mapping>>
    /\ UNCHANGED <<registry, mktdata, client, session, account, clock>>

\* IBBroker.createorder: the new order takes the next order id as its ref and
\* is stored in orderbyid under it.
createorder ==
    /\ UNCHANGED <<locks, threads, notifs, next_pc>>
    /\ CreateOrder("createorder")

\* IBBroker.buy: creates the order, then calls order.addinfo, a method
\* IBOrder does not define: the call raises AttributeError, after the order
\* was stored and before m_action is assigned and the order submitted.
buy ==
    /\ UNCHANGED <<locks, threads, notifs, next_pc>>
    /\ CreateOrder("buy")

\* IBBroker.sell: as buy.
sell ==
    /\ UNCHANGED <<locks, threads, notifs, next_pc>>
    /\ CreateOrder("sell")

\* What a contract handed to place_order carries: a symbol attribute, a conid
\* attribute, or only the m_ fields of makecontract.
ContractKinds == {"symbol", "conid", "m_fields"}

\* Order ids the backend assigns.
RemoteIds == {501, 502}

\* place_order(contract, order): the backend's order id, or None.
PlaceOrder(cache, rest, kind, symbol, initOk, out, pout, remote) ==
    LET i == InitializeRestClient(rest, initOk) IN
    IF i.raised
    THEN [ret |-> None, cache |-> cache, rest |-> i.rest, requests |-> <<>>]
    ELSE IF kind = "m_fields"
    THEN [ret |-> None, cache |-> cache, rest |-> i.rest, requests |-> <<>>]
    ELSE LET c == IF kind = "symbol"
                  THEN ResolveSymbolToConid(cache, i.rest, symbol, initOk, out)
                  ELSE [conid |-> ConidOf(symbol), cache |-> cache,
                        rest |-> i.rest, requests |-> <<>>]
         IN  IF c.conid = None
             THEN [ret |-> None, cache |-> c.cache, rest |-> c.rest,
                   requests |-> c.requests]
             ELSE [ret |-> IF pout = "ok" THEN remote ELSE None,
                   cache |-> c.cache, rest |-> c.rest,
                   requests |-> Append(c.requests, "place_order")]

\* placeOrder(order_id, contract, order) (module level, bound to the class in
\* place of the method of the class body): return self.place_order(contract,
\* order).  place_order reads neither order_id nor self.broker nor the order
\* mapper: no event reaches the broker and no id is recorded.
placeOrder(orderid, kind, symbol, initOk, out, pout, remote) ==
    /\ UNCHANGED <<locks, threads, brokerq>>
    /\ LET r == PlaceOrder(_symbol_cache, rest_client, kind, symbol, initOk,
                           out, pout, remote)
       IN /\ _symbol_cache' = r.cache
          /\ rest_client' = r.rest
          /\ last' = [NoCall EXCEPT !.op = "placeOrder", !.orderid = orderid,
                         !.attached = broker, !.ret = r.ret,
                         !.outcome = IF r.requests # <<>> /\
                                        r.requests[Len(r.requests)] =
                                            "place_order"
                                     THEN pout ELSE "failed",
                         !.requests = r.requests]
    /\ UNCHANGED <<registry, mktdata, session, account, orders, clock>>

\* cancel_order(order_id): asks the backend to cancel order_id.
CancelOrder(rest, orderid, initOk, out) ==
    LET i == InitializeRestClient(rest, initOk) IN
    IF i.raised
    THEN [ret |-> FALSE, rest |-> i.rest, requests |-> <<>>]
    ELSE [ret |-> out = "ok", rest |-> i.rest,
          requests |-> <<"cancel_order">>]

\* cancelOrder(order_id) (module level, bound to the class in place of the
\* method of the class body): return self.cancel_order(order_id), which
\* hands order_id to the backend without a look at the order mapper.
cancelOrder(orderid, initOk, out) ==
    /\ UNCHANGED <<locks, threads, brokerq>>
    /\ LET r == CancelOrder(rest_client, orderid, initOk, out) IN
       /\ rest_client' = r.rest
       /\ last' = [NoCall EXCEPT !.op = "cancelOrder", !.orderid = orderid,
                      !.attached = broker,
                      !.bound = orderid \in DOMAIN order_id_mapping,
                      !.flag = r.ret, !.requests = r.requests]
    /\ UNCHANGED <<_symbol_cache, registry, mktdata, session, account, orders,
                   clock>>

(***************************************************************************)
(* Session.                                                                *)
(***************************************************************************)

\* What portfolio_accounts may answer with.
AccountLists == {<<"U1">>, <<"U1", "U2">>}

\* _update_managed_accounts(): the accounts and the 'managed accounts' event
\* after asking the backend for the accounts (oa: how the request ends).
UpdateManagedAccounts(accts, ev, oa, answer) ==
    IF oa = "ok"
    THEN [managed_accounts |-> answer, event |-> TRUE]
    ELSE [managed_accounts |-> accts, event |-> ev]

\* The try block of reconnect(fromstart=True): oc, os, ow are how the
\* construction of the REST client, the initialisation of the brokerage
\* session and the construction of the WebSocket client end.
\* _start_background_threads reads self._ws_thread, an attribute only
\* _initialize_ws_client creates: without it the read raises and the except
\* clause sets the latch.
Connect(oc, os, ow, oa, answer) ==
    LET S == [dontreconnect |-> dontreconnect, rest_client |-> rest_client,
              ws_client |-> ws_client, contract_mapper |-> contract_mapper,
              contract_cache |-> contract_cache, conid_cache |-> conid_cache,
              _running |-> _running, managed_accounts |-> managed_accounts,
              event |-> _event_managed_accounts, ret |-> FALSE,
              requests |-> <<>>]
        M == [S EXCEPT !.rest_client = TRUE, !.ws_client = TRUE,
                       !.contract_mapper = TRUE, !.contract_cache = Empty,
                       !.conid_cache = Empty, !._running = TRUE,
                       !.requests = <<"initialize_brokerage_session">>]
    IN  IF oc = "raise" THEN [S EXCEPT !.dontreconnect = TRUE]
        ELSE IF os = "raise"
        THEN [S EXCEPT !.rest_client = TRUE, !.dontreconnect = TRUE,
                       !.requests = <<"initialize_brokerage_session">>]
        ELSE IF os = "none"
        THEN [S EXCEPT !.rest_client = TRUE,
                       !.requests = <<"initialize_brokerage_session">>]
        ELSE IF ow = "raise"
        THEN [S EXCEPT !.rest_client = TRUE, !.dontreconnect = TRUE,
                       !.requests = <<"initialize_brokerage_session">>]
        ELSE IF ~ws_attrs
        THEN [M EXCEPT !.dontreconnect = TRUE]
        ELSE LET u == UpdateManagedAccounts(managed_accounts,
                                            _event_managed_accounts, oa,
                                            answer)
             IN  [M EXCEPT !.managed_accounts = u.managed_accounts,
                           !.event = u.event, !.ret = TRUE,
                           !.requests = <<"initialize_brokerage_session",
                                          "portfolio_accounts">>]

\* reconnect that does not read the latch.
ReconnectIgnoringLatch(oc, os, ow, oa, answer) ==
    Connect(oc, os, ow, oa, answer)

\* reconnect(fromstart=True): nothing is done once the latch is set.
Reconnect(oc, os, ow, oa, answer) ==
    IF dontreconnect
    THEN [dontreconnect |-> dontreconnect, rest_client |-> rest_client,
          ws_client |-> ws_client, contract_mapper |-> contract_mapper,
          contract_cache |-> contract_cache, conid_cache |-> conid_cache,
          _running |-> _running, managed_accounts |-> managed_accounts,
          event |-> _event_managed_accounts, ret |-> FALSE,
          requests |-> <<>>]
    ELSE Connect(oc, os, ow, oa, answer)

\* _start_background_threads(), for one of its two threads: a thread that was
\* never started, or has ended, is replaced by a new one at the head of its
\* loop; one that is alive is left alone.
StartBackgroundThread(t) ==
    IF t.pc \in {"none", "exited"} THEN [t EXCEPT !.pc = "while"] ELSE t

SetSession(r) ==
    /\ dontreconnect' = r.dontreconnect
    /\ rest_client' = r.rest_client
    /\ ws_client' = r.ws_client
    /\ contract_mapper' = r.contract_mapper
    /\ contract_cache' = r.contract_cache
    /\ conid_cache' = r.conid_cache
    /\ _running' = r._running
    /\ managed_accounts' = r.managed_accounts
    /\ _event_managed_accounts' = r.event
    /\ UNCHANGED ws_attrs

\* start(data, broker): reconnects; for a data feed returns a new queue that
\* holds one None, for a broker attaches it.
start(who, oc, os, ow, oa, answer) ==
    /\ UNCHANGED <<locks, canceller, brokerq>>
    /\ who = "data" => RoomForQueue
    /\ LET r == Reconnect(oc, os, ow, oa, answer) IN
       /\ SetSession(r)
       /\ pump' = IF r.ret THEN StartBackgroundThread(pump) ELSE pump
       /\ poller' = IF r.ret THEN StartBackgroundThread(poller) ELSE poller
       /\ timer_armed' = (timer_armed \/ (r.ret /\ oa = "ok"))
       /\ IF who = "data"
          THEN LET g == GetTickerQueue(Reg, TRUE) IN
               /\ SetReg(g.r)
               /\ datas' = datas + 1
               /\ UNCHANGED broker
               /\ last' = [NoCall EXCEPT !.op = "start", !.retQ = g.retQ,
                              !.flag = r.ret, !.requests = r.requests,
                              !.bound = dontreconnect]
          ELSE /\ broker' = TRUE
               /\ UNCHANGED <<registry, datas>>
               /\ last' = [NoCall EXCEPT !.op = "start", !.flag = r.ret,
                              !.requests = r.requests,
                              !.bound = dontreconnect]
    /\ UNCHANGED <<_symbol_cache, mktdata, account, orders, clock>>

\* stop() with the errors of the two close() calls let through: the method
\* ends at the first close that raises and sets no event.
StopUnguarded(wsc, rest, ev, cw, cr) ==
    LET w == IF wsc THEN <<"ws_client.close">> ELSE <<>>
        r == IF rest THEN <<"rest_client.close">> ELSE <<>>
    IN  IF wsc /\ cw = "raise"
        THEN [_running |-> FALSE, managed |-> ev[1], accdownload |-> ev[2],
              raised |-> TRUE, requests |-> w]
        ELSE IF rest /\ cr = "raise"
        THEN [_running |-> FALSE, managed |-> ev[1], accdownload |-> ev[2],
              raised |-> TRUE, requests |-> w \o r]
        ELSE [_running |-> FALSE, managed |-> TRUE, accdownload |-> TRUE,
              raised |-> FALSE, requests |-> w \o r]

\* stop(): clears the running flag, closes the clients that exist (cw, cr:
\* how the close of the WebSocket and of the REST client ends; an error is
\* dropped by the bare except and the clients stay referenced), joins the
\* threads for at most a second each, and sets both events.
Stop(wsc, rest, ev, cw, cr) ==
    [_running |-> FALSE, managed |-> TRUE, accdownload |-> TRUE,
     raised |-> FALSE,
     requests |-> (IF wsc THEN <<"ws_client.close">> ELSE <<>>) \o
                  (IF rest THEN <<"rest_client.close">> ELSE <<>>)]

stop(cw, cr) ==
    /\ UNCHANGED <<locks, threads, brokerq>>
    /\ LET r == Stop(ws_client, rest_client,
                     <<_event_managed_accounts, _event_accdownload>>, cw, cr)
       IN /\ _running' = r._running
          /\ _event_managed_accounts' = r.managed
          /\ _event_accdownload' = r.accdownload
          /\ last' = [NoCall EXCEPT !.op = "stop", !.raised = r.raised,
                         !.requests = r.requests,
                         !.outcome = IF (ws_client /\ cw = "raise") \/
                                        (rest_client /\ cr = "raise")
                                     THEN "raise" ELSE "ok"]
    /\ UNCHANGED <<dontreconnect, ws_client, contract_mapper, broker, datas,
                   managed_accounts, acc_cash, acc_value, ws_attrs,
                   contract_cache, conid_cache>>
    /\ UNCHANGED <<registry, mktdata, client, orders, clock>>

\* _initialize_ws_client() and enable_websocket_channels(channels): ow is how
\* the construction of the WebSocket client ends, osub how the subscription
\* of the channels ends.  The client is built, and the attributes are
\* (re)set, only while there is no WebSocket client.
enable_websocket_channels(ow, osub) ==
    /\ UNCHANGED <<locks, threads, brokerq>>
    /\ IF ws_client
       THEN /\ UNCHANGED <<ws_client, contract_mapper, contract_cache,
                           conid_cache, ws_attrs, mktdata, _running,
                           order_id_mapping, reverse_mapping>>
            /\ last' = [NoCall EXCEPT !.op = "enable_websocket_channels",
                           !.flag = (osub = "ok"),
                           !.requests = <<"subscribe">>]
       ELSE IF ow = "raise"
       THEN /\ UNCHANGED <<ws_client, contract_mapper, contract_cache,
                           conid_cache, ws_attrs, mktdata, _running,
                           order_id_mapping, reverse_mapping>>
            /\ last' = [NoCall EXCEPT !.op = "enable_websocket_channels"]
       ELSE /\ ws_client' = TRUE
            /\ contract_mapper' = FALSE
            /\ contract_cache' = Empty
            /\ conid_cache' = Empty
            /\ ws_attrs' = TRUE
            /\ ws_subscriptions' = Empty
            /\ market_data_queues' = Empty
            /\ _running' = FALSE
            /\ order_id_mapping' = Empty
            /\ reverse_mapping' = Empty
            /\ last' = [NoCall EXCEPT !.op = "enable_websocket_channels",
                           !.flag = (osub = "ok"),
                           !.requests = <<"subscribe">>]
    /\ UNCHANGED <<dontreconnect, broker, datas, managed_accounts,
                   _event_managed_accounts, account, orderbyid, norders,
                   orderIds>>
    /\ UNCHANGED <<registry, client, clock>>

(***************************************************************************)
(* ContractMapper.                                                         *)
(***************************************************************************)

\* A field of a contract is text (a str) or bytes (the byte values).
Text(t) == [enc |-> "str", text |-> t, bytes |-> <<>>]
Bytes(b) == [enc |-> "bytes", text |-> "", bytes |-> b]

\* The characters of the byte values the contracts use.
Chr(b) ==
    CASE b = 65 -> "A" [] b = 66 -> "B" [] b = 67 -> "C" [] b = 69 -> "E"
      [] b = 73 -> "I" [] b = 75 -> "K" [] b = 77 -> "M" [] b = 78 -> "N"
      [] b = 82 -> "R" [] b = 83 -> "S" [] b = 84 -> "T" [] b = 89 -> "Y"

\* bytes.decode()
RECURSIVE Decode(_)
Decode(b) == IF b = <<>> THEN "" ELSE Chr(Head(b)) \o Decode(Tail(b))

\* x.decode() if isinstance(x, bytes) else x
Normalize(f) == IF f.enc = "bytes" THEN Decode(f.bytes) ELSE f.text

\* The contracts contract_to_conid is called with: IBM stock on SMART as
\* text and as bytes, on NYSE as text and with a bytes symbol, on ARCA as
\* bytes.
MapperContracts ==
    <<[m_symbol |-> Text("IBM"), m_secType |-> Text("STK"),
       m_exchange |-> Text("SMART")],
      [m_symbol |-> Bytes(<<73, 66, 77>>), m_secType |-> Bytes(<<83, 84, 75>>),
       m_exchange |-> Bytes(<<83, 77, 65, 82, 84>>)],
      [m_symbol |-> Text("IBM"), m_secType |-> Text("STK"),
       m_exchange |-> Text("NYSE")],
      [m_symbol |-> Bytes(<<73, 66, 77>>), m_secType |-> Text("STK"),
       m_exchange |-> Text("NYSE")],
      [m_symbol |-> Bytes(<<73, 66, 77>>), m_secType |-> Bytes(<<83, 84, 75>>),
       m_exchange |-> Bytes(<<65, 82, 67, 65>>)]>>

\* The key with each bytes field left as the text of its repr.
CacheKeyRepr(contract) ==
    LET R(f) == IF f.enc = "bytes" THEN "b'" \o Decode(f.bytes) \o "'"
                ELSE f.text
    IN  <<R(contract.m_symbol), R(contract.m_secType), R(contract.m_exchange)>>

\* cache_key of contract_to_conid
CacheKey(contract) ==
    <<Normalize(contract.m_symbol), Normalize(contract.m_secType),
      Normalize(contract.m_exchange)>>

\* What search_contract_by_symbol may answer with: lists of candidates, one
\* of them a candidate without a 'conid'.
SearchAnswers ==
    {<<[conid |-> 11, exchange |-> "NYSE"],
       [conid |-> 12, exchange |-> "SMART"]>>,
     <<[conid |-> 12, exchange |-> "SMART"],
       [conid |-> 11, exchange |-> "NYSE"]>>,
     <<[conid |-> 11, exchange |-> "NYSE"]>>,
     <<[exchange |-> "NYSE"]>>,
     <<>>}

\* How the search ends: data, success = False, an exception.
SearchOutcomes == {"ok", "fail", "raise"}

\* str(conid)
Str(n) == IF n = 11 THEN "11" ELSE "12"

\* The index of the candidate the loop of contract_to_conid breaks at, 0 if
\* it runs to its end.
RECURSIVE FirstMatch(_, _, _)
FirstMatch(cands, exchange, k) ==
    IF k > Len(cands) THEN 0
    ELSE IF exchange = "SMART" \/ cands[k].exchange = exchange THEN k
    ELSE FirstMatch(cands, exchange, k + 1)

\* The match with 'SMART' treated as the name of an exchange like any other.
BestMatchExact(cands, exchange) ==
    LET S == {k \in DOMAIN cands : cands[k].exchange = exchange} IN
    IF S = {} THEN cands[1]
    ELSE cands[CHOOSE k \in S : \A j \in S : k <= j]

\* best_match of contract_to_conid; cands is not empty.
BestMatch(cands, exchange) ==
    LET k == FirstMatch(cands, exchange, 1) IN
    IF k = 0 THEN cands[1] ELSE cands[k]

\* contract_to_conid with a failed search remembered as a miss.
ContractToConidCachingMiss(cache, ccache, contract, out, cands) ==
    LET key == CacheKey(contract) IN
    IF key \in DOMAIN cache
    THEN [ret |-> cache[key], contract_cache |-> cache,
          conid_cache |-> ccache, requests |-> <<>>, raised |-> FALSE]
    ELSE IF out = "ok" /\ cands # <<>> /\
            "conid" \in DOMAIN BestMatch(cands, key[3])
    THEN LET b == BestMatch(cands, key[3]) IN
         [ret |-> Str(b.conid),
          contract_cache |-> Put(cache, key, Str(b.conid)),
          conid_cache |-> Put(ccache, Str(b.conid), b),
          requests |-> <<"search_contract_by_symbol">>, raised |-> FALSE]
    ELSE [ret |-> "", contract_cache |-> Put(cache, key, ""),
          conid_cache |-> ccache,
          requests |-> <<"search_contract_by_symbol">>, raised |-> FALSE]

\* ContractMapper.contract_to_conid(contract): the cached conid, else the
\* conid of the best match of the search, cached in both directions; None
\* (here "") when the search raises, fails, is empty or the match has no
\* 'conid'.
ContractToConid(cache, ccache, contract, out, cands) ==
    LET key == CacheKey(contract) IN
    IF key \in DOMAIN cache
    THEN [ret |-> cache[key], contract_cache |-> cache,
          conid_cache |-> ccache, requests |-> <<>>, raised |-> FALSE]
    ELSE IF out = "ok" /\ cands # <<>> /\
            "conid" \in DOMAIN BestMatch(cands, key[3])
    THEN LET b == BestMatch(cands, key[3]) IN
         [ret |-> Str(b.conid),
          contract_cache |-> Put(cache, key, Str(b.conid)),
          conid_cache |-> Put(ccache, Str(b.conid), b),
          requests |-> <<"search_contract_by_symbol">>, raised |-> FALSE]
    ELSE [ret |-> "", contract_cache |-> cache, conid_cache |-> ccache,
          requests |-> <<"search_contract_by_symbol">>, raised |-> FALSE]

\* A call of store.contract_mapper.contract_to_conid(MapperContracts[c]).
contract_to_conid(c, out, cands) ==
    /\ UNCHANGED <<locks, threads, brokerq>>
    /\ contract_mapper
    /\ rest_client
    /\ LET r == ContractToConid(contract_cache, conid_cache,
                                MapperContracts[c], out, cands)
       IN /\ contract_cache' = r.contract_cache
          /\ conid_cache' = r.conid_cache
          /\ last' = [NoCall EXCEPT !.op = "contract_to_conid",
                         !.contract = c, !.outcome = out,
                         !.candidates = cands, !.conid = r.ret,
                         !.raised = r.raised, !.requests = r.requests,
                         !.bound = CacheKey(MapperContracts[c])
                                      \in DOMAIN contract_cache]
    /\ UNCHANGED <<dontreconnect, ws_client, contract_mapper, _running,
                   broker, datas, managed_accounts, _event_managed_accounts,
                   ws_attrs>>
    /\ UNCHANGED <<registry, mktdata, client, account, orders, clock>>

\* clear_caches(): empties the store's own caches (_contract_cache, which
\* nothing fills, and _symbol_cache); the mapper's caches are not touched.
clear_caches ==
    /\ UNCHANGED <<locks, threads, brokerq>>
    /\ _symbol_cache' = Empty
    /\ last' = [NoCall EXCEPT !.op = "clear_caches"]
    /\ UNCHANGED <<rest_client, registry, mktdata, session, account, orders,
                   clock>>

\* A call of connected() (module level, bound to the class): health is
\* whether the backend would answer a health check, which the function does
\* not make.
connectedCall(health) ==
    /\ UNCHANGED <<locks, threads, brokerq>>
    /\ last' = [NoCall EXCEPT !.op = "connected", !.flag = health,
                   !.connected = rest_client]
    /\ UNCHANGED <<registry, mktdata, client, session, account, orders,
                   clock>>

(***************************************************************************)
(* Account.                                                                *)
(***************************************************************************)
Amounts == {100, 250}

\* connected() (module level, bound to the class)
connected == rest_client

\* What _update_account_info stores for the accounts: answer[a] is the amount
\* in the summary of account a, or None when the request for it fails.
UpdateAccountInfo(m, accts, answer) ==
    [a \in (DOMAIN m) \cup {accts[k] : k \in {k \in 1..Len(accts) :
                                                answer[accts[k]] # None}} |->
        IF \E k \in 1..Len(accts) : accts[k] = a /\ answer[a] # None
        THEN answer[a] ELSE m[a]]

\* One refresh of the account poller (_account_update_handler's loop body,
\* _update_account_info): cash and value of every managed account.  The
\* poller's thread exists once reconnect got past _start_background_threads
\* and loops while _running.
_update_account_info(answer) ==
    /\ _lock_accupd = NoThread
    /\ UNCHANGED <<locks, threads, brokerq>>
    /\ _running
    /\ ws_attrs
    /\ rest_client
    /\ acc_cash' = UpdateAccountInfo(acc_cash, managed_accounts,
                                     [a \in DOMAIN answer |-> answer[a].cash])
    /\ acc_value' = UpdateAccountInfo(acc_value, managed_accounts,
                                      [a \in DOMAIN answer |-> answer[a].value])
    /\ last' = [NoCall EXCEPT !.op = "_update_account_info"]
    /\ UNCHANGED <<_event_accdownload, registry, mktdata, client, session,
                   orders, clock>>

\* get_account_summary(): the backend's account summary, or None.
GetAccountSummary(rest, initOk, out, amount) ==
    LET i == InitializeRestClient(rest, initOk) IN
    IF i.raised
    THEN [ret |-> None, rest |-> i.rest, requests |-> <<>>]
    ELSE [ret |-> IF out = "ok" THEN amount ELSE None, rest |-> i.rest,
          requests |-> <<"account_summary">>]

\* get_account_cash() / get_account_value(): the amount in the summary, 0.0
\* without one.
GetAccountAmount(rest, initOk, out, amount) ==
    LET g == GetAccountSummary(rest, initOk, out, amount) IN
    [g EXCEPT !.ret = IF g.ret = None THEN 0 ELSE g.ret]

\* get_acc_cash() (module level, bound to the class):
\* return self.get_account_cash().
get_acc_cash(initOk, out, amount) ==
    /\ UNCHANGED <<locks, threads, brokerq>>
    /\ LET g == GetAccountAmount(rest_client, initOk, out, amount) IN
       /\ rest_client' = g.rest
       /\ last' = [NoCall EXCEPT !.op = "get_acc_cash",
                      !.connected = connected, !.ret = g.ret,
                      !.requests = g.requests]
    /\ UNCHANGED <<_symbol_cache, registry, mktdata, session, account, orders,
                   clock>>

\* get_acc_value() (module level, bound to the class):
\* return self.get_account_value().
get_acc_value(initOk, out, amount) ==
    /\ UNCHANGED <<locks, threads, brokerq>>
    /\ LET g == GetAccountAmount(rest_client, initOk, out, amount) IN
       /\ rest_client' = g.rest
       /\ last' = [NoCall EXCEPT !.op = "get_acc_value",
                      !.connected = connected, !.ret = g.ret,
                      !.requests = g.requests]
    /\ UNCHANGED <<_symbol_cache, registry, mktdata, session, account, orders,
                   clock>>

\* reqAccountUpdates() (module level, bound to the class): asks for the
\* account summary and drops it.
reqAccountUpdates(initOk, out, amount) ==
    /\ UNCHANGED <<locks, threads, brokerq>>
    /\ LET g == GetAccountSummary(rest_client, initOk, out, amount) IN
       /\ rest_client' = g.rest
       /\ last' = [NoCall EXCEPT !.op = "reqAccountUpdates",
                      !.connected = connected, !.requests = g.requests]
    /\ UNCHANGED <<_symbol_cache, registry, mktdata, session, account, orders,
                   clock>>

(***************************************************************************)
(* The order-id mapping of OrderMapper.                                    *)
(***************************************************************************)

\* Recording that also drops the reverse entry of the remote id the local
\* id was bound to before.
RecordOrderIdRebinding(fwd, rev, orderid, remote) ==
    [fwd |-> Put(fwd, orderid, remote),
     rev |-> Put(IF orderid \in DOMAIN fwd THEN Pop(rev, fwd[orderid])
                 ELSE rev, remote, orderid)]

\* The two assignments that record a placed order:
\* order_id_mapping[orderid] = ibind_order_id and
\* reverse_mapping[ibind_order_id] = orderid.
RecordOrderId(fwd, rev, orderid, remote) ==
    [fwd |-> Put(fwd, orderid, remote), rev |-> Put(rev, remote, orderid)]

\* Recording the remote id of an order; order_mapper exists once
\* _initialize_ws_client has run.
recordOrderId(orderid, remote) ==
    /\ ws_attrs
    /\ LET m == RecordOrderId(order_id_mapping, reverse_mapping, orderid,
                              remote)
       IN /\ order_id_mapping' = m.fwd
          /\ reverse_mapping' = m.rev
    /\ last' = [NoCall EXCEPT !.op = "recordOrderId", !.orderid = orderid,
                              !.ret = remote,
                              !.bound = orderid \in DOMAIN order_id_mapping]
    /\ UNCHANGED <<orderbyid, norders, orderIds>>
    /\ UNCHANGED <<registry, mktdata, client, session, account, clock, locks,
                   threads, brokerq>>

(***************************************************************************)
(* Threads.  A method that other threads can interleave with is followed   *)
(* step by step: each action below is one stretch of the method between    *)
(* two points where another thread can run.                                *)
(***************************************************************************)

\* cancelQueue(q, sendnone), up to its first statement: tickerId =
\* self.ts.pop(q, None).  The method takes no lock.
cancelQueue_begin(q, sendnone) ==
    /\ canceller.pc = "idle"
    /\ sendnone => RoomInQueue(q)
    /\ ts' = Pop(ts, q)
    /\ canceller' = [pc |-> "popped", q |-> q, tickerId |-> Get(ts, q),
                     sendnone |-> sendnone]
    /\ UNCHANGED <<qs, iscash, _tickerId, nq, qc, pump, poller, timer_armed,
                   last>>
    /\ UNCHANGED <<mktdata, client, session, account, orders, clock, locks,
                   brokerq>>

\* cancelQueue(q, sendnone), the rest: self.qs.pop(tickerId, None),
\* self.iscash.pop(tickerId, None) and the None put on q.
cancelQueue_end ==
    /\ canceller.pc = "popped"
    /\ qs' = Pop(qs, canceller.tickerId)
    /\ iscash' = Pop(iscash, canceller.tickerId)
    /\ qc' = IF canceller.sendnone THEN QPut(qc, canceller.q, NoneMsg) ELSE qc
    /\ canceller' = Idle
    /\ last' = [NoCall EXCEPT !.op = "cancelQueue", !.q = canceller.q,
                              !.flag = canceller.sendnone]
    /\ UNCHANGED <<ts, _tickerId, nq, pump, poller, timer_armed>>
    /\ UNCHANGED <<mktdata, client, session, account, orders, clock, locks,
                   brokerq>>

\* cancelMktData(q), from taking _lock_q to the call of the backend or, when
\* there is nothing to unsubscribe, to the call of cancelQueue.  The read of
\* self.ws_subscriptions raises where _initialize_ws_client never ran; the
\* with statement then releases the lock.
cancelMktData_begin(q) ==
    /\ canceller.pc = "idle"
    /\ _lock_q = NoThread
    /\ RoomInQueue(q)
    /\ IF q \in DOMAIN ts /\ ~ws_attrs
       THEN /\ last' = [NoCall EXCEPT !.op = "cancelMktData", !.q = q,
                                      !.raised = TRUE]
            /\ UNCHANGED <<_lock_q, canceller, mktdata>>
       ELSE IF q \in DOMAIN ts /\ ts[q] \in DOMAIN ws_subscriptions
       THEN /\ ws_subscriptions' = Pop(ws_subscriptions, ts[q])
            /\ market_data_queues' =
                  Pop(market_data_queues, ws_subscriptions[ts[q]])
            /\ _lock_q' = "canceller"
            /\ canceller' = [Idle EXCEPT !.q = q,
                                !.pc = IF rest_client THEN "unsubscribe"
                                       ELSE "cancelQueue"]
            /\ UNCHANGED last
       ELSE /\ _lock_q' = "canceller"
            /\ canceller' = [Idle EXCEPT !.q = q, !.pc = "cancelQueue"]
            /\ UNCHANGED <<mktdata, last>>
    /\ UNCHANGED <<_lock_accupd, _lock_pos, pump, poller, timer_armed>>
    /\ UNCHANGED <<registry, client, session, account, orders, clock,
                   brokerq>>

\* cancelMktData(q): rest_client.marketdata_unsubscribe([conid]) returns or
\* raises (the error is logged); _lock_q is held throughout.
cancelMktData_unsubscribe(out) ==
    /\ canceller.pc = "unsubscribe"
    /\ canceller' = [canceller EXCEPT !.pc = "cancelQueue"]
    /\ last' = [NoCall EXCEPT !.op = "marketdata_unsubscribe",
                              !.q = canceller.q, !.raised = (out = "raise")]
    /\ UNCHANGED <<locks, pump, poller, timer_armed>>
    /\ UNCHANGED <<registry, mktdata, client, session, account, orders, clock,
                   brokerq>>

\* cancelMktData(q): self.cancelQueue(q, True), still inside the with
\* statement, and the release of _lock_q.
cancelMktData_end ==
    /\ canceller.pc = "cancelQueue"
    /\ SetReg(CancelQueue(Reg, canceller.q, TRUE))
    /\ _lock_q' = NoThread
    /\ canceller' = Idle
    /\ last' = [NoCall EXCEPT !.op = "cancelMktData", !.q = canceller.q,
                              !.flag = TRUE]
    /\ UNCHANGED <<_lock_accupd, _lock_pos, pump, poller, timer_armed>>
    /\ UNCHANGED <<mktdata, client, session, account, orders, clock, brokerq>>

\* The test at the head of the loops of the two background threads:
\* while self._running.  KeepRunningAlways is a loop that does not read the
\* flag.
KeepRunningAlways(running) == TRUE

KeepRunning(running) == running

\* The item _process_ws_message puts on a queue.
RTVolume(conid) == [kind |-> "RTVolume", conid |-> conid]

\* Instruments the WebSocket delivers messages of.
Conids == {ConidOf(symbol) : symbol \in Symbols}

\* _ws_message_handler: the test of the flag and get_message(timeout=1.0).
\* The loop ends when the flag is clear; otherwise a message of conid has
\* arrived (a turn of the loop without a message changes nothing).
pump_while(conid) ==
    /\ pump.pc = "while"
    /\ IF KeepRunning(_running)
       THEN /\ \A q \in Queues : Len(qc[q]) <= MaxQLen
            /\ pump' = [pump EXCEPT !.pc = "process", !.conid = conid]
       ELSE pump' = [NotStarted EXCEPT !.pc = "exited"]
    /\ UNCHANGED <<canceller, poller, timer_armed, last>>
    /\ UNCHANGED <<registry, mktdata, client, session, account, orders, clock,
                   locks, brokerq>>

\* _process_ws_message, up to the read of self.market_data_queues[conid]:
\* the queue the message will be put on, if the conid has one.  No lock is
\* taken.
pump_lookup ==
    /\ pump.pc = "process"
    /\ pump' = IF pump.conid \in DOMAIN market_data_queues
               THEN [pump EXCEPT !.pc = "put",
                                 !.q = market_data_queues[pump.conid]]
               ELSE [NotStarted EXCEPT !.pc = "while"]
    /\ UNCHANGED <<canceller, poller, timer_armed, last>>
    /\ UNCHANGED <<registry, mktdata, client, session, account, orders, clock,
                   locks, brokerq>>

\* _process_ws_message: the put of the RTVolume on the queue read before.
pump_put ==
    /\ pump.pc = "put"
    /\ qc' = QPut(qc, pump.q, RTVolume(pump.conid))
    /\ pump' = [NotStarted EXCEPT !.pc = "while"]
    /\ UNCHANGED <<qs, ts, iscash, _tickerId, nq>>
    /\ UNCHANGED <<canceller, poller, timer_armed, last>>
    /\ UNCHANGED <<mktdata, client, session, account, orders, clock, locks,
                   brokerq>>

\* _account_update_handler: the test of the flag.  With the flag set the
\* thread enters _update_account_info, takes _lock_accupd and, if there is a
\* managed account, asks the backend for its summary; without one both
\* refreshes do nothing and the thread goes to sleep.
poller_while ==
    /\ poller.pc = "while"
    /\ IF ~KeepRunning(_running)
       THEN /\ poller' = [poller EXCEPT !.pc = "exited"]
            /\ UNCHANGED _lock_accupd
       ELSE IF rest_client /\ managed_accounts # <<>>
       THEN /\ _lock_accupd = NoThread
            /\ _lock_accupd' = "poller"
            /\ poller' = [poller EXCEPT !.pc = "account_summary"]
       ELSE /\ poller' = [poller EXCEPT !.pc = "sleep"]
            /\ UNCHANGED _lock_accupd
    /\ UNCHANGED <<_lock_q, _lock_pos, canceller, pump, timer_armed, last>>
    /\ UNCHANGED <<registry, mktdata, client, session, account, orders, clock,
                   brokerq>>

\* _update_account_info: the summaries arrive and are stored, _lock_accupd
\* is released; the thread enters _update_positions, takes _lock_pos and
\* asks the backend for the positions.
poller_account_summary(answer) ==
    /\ poller.pc = "account_summary"
    /\ acc_cash' = UpdateAccountInfo(acc_cash, managed_accounts,
                                     [a \in DOMAIN answer |-> answer[a].cash])
    /\ acc_value' = UpdateAccountInfo(acc_value, managed_accounts,
                                      [a \in DOMAIN answer |-> answer[a].value])
    /\ _lock_accupd' = NoThread
    /\ _lock_pos = NoThread
    /\ _lock_pos' = "poller"
    /\ poller' = [poller EXCEPT !.pc = "positions"]
    /\ UNCHANGED <<_event_accdownload, _lock_q, canceller, pump, timer_armed,
                   last>>
    /\ UNCHANGED <<registry, mktdata, client, session, orders, clock, brokerq>>

\* _update_positions: the positions arrive, _lock_pos is released and the
\* thread starts its sleep of 300 ticks.
poller_positions ==
    /\ poller.pc = "positions"
    /\ _lock_pos' = NoThread
    /\ poller' = [poller EXCEPT !.pc = "sleep"]
    /\ UNCHANGED <<_lock_q, _lock_accupd, canceller, pump, timer_armed, last>>
    /\ UNCHANGED <<registry, mktdata, client, session, account, orders, clock,
                   brokerq>>

\* The sleep of _account_update_handler ends, at the tick that finds the
\* flag clear or after the last tick, and the thread is back at the head of
\* its loop.
poller_sleep ==
    /\ poller.pc = "sleep"
    /\ poller' = [poller EXCEPT !.pc = "while"]
    /\ UNCHANGED <<locks, canceller, pump, timer_armed, last>>
    /\ UNCHANGED <<registry, mktdata, client, session, account, orders, clock,
                   brokerq>>

\* reqCurrentTime() run by its timer: the offset is reset and the next
\* threading.Timer is started; neither this method nor stop() reads
\* _running or cancels the timer.
reqCurrentTime ==
    /\ timer_armed
    /\ timer_armed' = TRUE
    /\ last' = [NoCall EXCEPT !.op = "reqCurrentTime",
                              !.flag = _running]
    /\ UNCHANGED <<canceller, pump, poller>>
    /\ UNCHANGED <<registry, mktdata, client, session, account, orders, clock,
                   locks, brokerq>>

(***************************************************************************)
(* The broker's notifications.                                             *)
(***************************************************************************)

\* The statuses of an order that next() acts on.
Statuses == {"Submitted", "Accepted"}

\* order.clone() of an order that has the method: a copy.
Clone(order) == order

\* IBBroker.notify(order): self.notifs.put(order.clone()).  cls is the class
\* of the order: an IBOrder defines no clone and the call raises.
notify(cls, status) ==
    /\ next_pc.pc = "idle"
    /\ Len(notifs) < MaxNotifs
    /\ notifs' = IF cls = "IBOrder" THEN notifs
                 ELSE Append(notifs, Clone([kind |-> "order",
                                            status |-> status]))
    /\ last' = [NoCall EXCEPT !.op = "notify", !.raised = (cls = "IBOrder")]
    /\ UNCHANGED <<next_pc, orderinfo>>
    /\ UNCHANGED <<registry, mktdata, client, session, account, orders, clock,
                   locks, threads>>

\* A call of next() that holds no order.
NoOrder == [kind |-> "none", status |-> ""]

\* IBBroker.next() is called.
next_call ==
    /\ next_pc.pc = "idle"
    /\ next_pc' = [pc |-> "get", order |-> NoOrder]
    /\ last' = [NoCall EXCEPT !.op = "next_call"]
    /\ UNCHANGED <<notifs, orderinfo>>
    /\ UNCHANGED <<registry, mktdata, client, session, account, orders, clock,
                   locks, threads>>

\* The loop of next(), first half of a turn: msg = self.notifs.get(False).
\* With the queue empty the method returns; otherwise the order at the head
\* is taken and the method of its status is called on it.
next_get ==
    /\ next_pc.pc = "get"
    /\ IF notifs = <<>>
       THEN /\ next_pc' = [pc |-> "idle", order |-> NoOrder]
            /\ last' = [NoCall EXCEPT !.op = "next"]
            /\ UNCHANGED notifs
       ELSE /\ next_pc' = [pc |-> "notify", order |-> Head(notifs)]
            /\ notifs' = Tail(notifs)
            /\ UNCHANGED last
    /\ UNCHANGED orderinfo
    /\ UNCHANGED <<registry, mktdata, client, session, account, orders, clock,
                   locks, threads>>

\* The loop of next(), second half of a turn: self.notify(order) puts a
\* clone of the order back on the queue, and the loop goes round.
next_notify ==
    /\ next_pc.pc = "notify"
    /\ notifs' = Append(notifs, Clone(next_pc.order))
    /\ next_pc' = [pc |-> "get", order |-> NoOrder]
    /\ UNCHANGED <<orderinfo, last>>
    /\ UNCHANGED <<registry, mktdata, client, session, account, orders, clock,
                   locks, threads>>

\* A step of the thread that called next().
next_loop == next_get \/ next_notify

Init ==
    /\ qs = Empty
    /\ ts = Empty
    /\ iscash = Empty
    /\ _tickerId = REQIDBASE
    /\ nq = 0
    /\ qc = <<>>
    /\ rest_client = FALSE
    /\ _symbol_cache = Empty
    /\ ws_subscriptions = Empty
    /\ market_data_queues = Empty
    /\ dontreconnect = FALSE
    /\ ws_client = FALSE
    /\ contract_mapper = FALSE
    /\ _running = FALSE
    /\ broker = FALSE
    /\ datas = 0
    /\ managed_accounts = <<>>
    /\ _event_managed_accounts = FALSE
    /\ ws_attrs = FALSE
    /\ contract_cache = Empty
    /\ conid_cache = Empty
    /\ _event_accdownload = FALSE
    /\ acc_cash = Empty
    /\ acc_value = Empty
    /\ order_id_mapping = Empty
    /\ reverse_mapping = Empty
    /\ orderbyid = Empty
    /\ norders = 0
    /\ orderIds = <<>>
    /\ time_ms \in ClockStarts
    /\ ticks = 0
    /\ _lock_q = NoThread
    /\ _lock_accupd = NoThread
    /\ _lock_pos = NoThread
    /\ canceller = Idle
    /\ pump = NotStarted
    /\ poller = NotStarted
    /\ timer_armed = FALSE
    /\ notifs = <<>>
    /\ next_pc = [pc |-> "idle", order |-> NoOrder]
    /\ orderinfo = <<>>
    /\ last = NoCall

\* Ticker ids a caller may hold: every id issued so far and the next one.
TickerIds == REQIDBASE.._tickerId

\* The ways a stop can go: how a close ends matters only for a client that
\* exists.
Stops ==
    \E cw \in IF ws_client THEN {"ok", "raise"} ELSE {"ok"},
       cr \in IF rest_client THEN {"ok", "raise"} ELSE {"ok"} : stop(cw, cr)

\* The ways enable_websocket_channels can go.
Enables ==
    \E ow \in IF ws_client THEN {"ok"} ELSE {"ok", "raise"},
       osub \in {"ok", "raise"} :
          (ow = "raise" => osub = "ok") /\ enable_websocket_channels(ow, osub)

NextAllocCancel ==
    \/ \E st \in BOOLEAN : getTickerQueue(st)
    \/ \E q \in Queues, sendnone \in BOOLEAN : cancelQueue(q, sendnone)

SpecAllocCancel == Init /\ [][NextAllocCancel]_vars

\* The security types and sides reqMktData is called with: one for each way
\* the cash flag is decided.
MktCases == {<<"b'STK'", "">>, <<"CASH", "ASK">>, <<"b'CASH'", "">>,
             <<"b'CFD'", "ASK">>}

\* The outcomes that a call reads: whether the REST client can be created
\* matters only while there is none, the backend's answer for a symbol only
\* while the symbol is not cached.
InitOutcomes == IF rest_client THEN {TRUE} ELSE BOOLEAN
ResolveOutcomes(symbol) ==
    IF symbol \in DOMAIN _symbol_cache \/ symbol = "" THEN {"ok"} ELSE Outcomes

NextRegistry ==
    \/ \E st \in BOOLEAN : getTickerQueue(st)
    \/ \E tickerId \in TickerIds : reuseQueue(tickerId)
    \/ \E q \in Queues, sendnone \in BOOLEAN : cancelQueue(q, sendnone)
    \/ \E ow \in {"ok", "raise"} :
          ~ws_client /\ enable_websocket_channels(ow, "ok")
    \/ \E symbol \in {"", "AAPL"}, c \in MktCases, initOk \in InitOutcomes :
          \E out \in ResolveOutcomes(symbol) :
             reqMktData(symbol, c[1], c[2], initOk, out)

SpecRegistry == Init /\ [][NextRegistry]_vars

\* The ways a historical fetch can go: the answer is read only if the
\* request succeeds, and its wrapping matters only when it holds no bar.
FetchCases ==
    {<<"ok", FALSE, bs>> : bs \in BarLists(MaxBars)} \cup
    {<<"ok", TRUE, <<>>>>, <<"none", FALSE, <<>>>>, <<"raise", FALSE, <<>>>>}

NextData ==
    \/ \E symbol \in {"", "AAPL"}, initOk \in InitOutcomes :
          \E out \in ResolveOutcomes(symbol) :
             reqMktData(symbol, "b'CASH'", "ASK", initOk, out)
    \/ \E symbol \in {"", "AAPL"}, initOk \in InitOutcomes, f \in FetchCases :
          \E out \in ResolveOutcomes(symbol) :
             reqHistoricalData(symbol, initOk, out, f[1], f[2], f[3])

SpecData == Init /\ [][NextData]_vars

\* Local order ids a caller may pass: those issued so far.
OrderIdsIssued == {orderIds[k] : k \in 1..Len(orderIds)}

\* The ways a reconnect can go: each step is reached only if the one before
\* succeeded, and the answer matters only if the accounts request succeeds.
ReconnectCases ==
    {c \in [oc : {"ok", "raise"}, os : Outcomes, ow : {"ok", "raise"},
            oa : Outcomes, answer : AccountLists] :
        /\ c.oc = "raise" => c.os = "ok"
        /\ c.os # "ok" => c.ow = "ok"
        /\ (c.oc = "raise" \/ c.os # "ok" \/ c.ow = "raise") => c.oa = "ok"
        /\ (c.oa # "ok" \/ c.oc = "raise" \/ c.os # "ok" \/ c.ow = "raise")
              => c.answer = <<"U1">>}

Starts(who) ==
    \E c \in ReconnectCases : start(who, c.oc, c.os, c.ow, c.oa, c.answer)

\* The ways a placeOrder can go: an input a contract kind does not read is
\* left at its first value.
PlaceCases ==
    {c \in [kind : ContractKinds, symbol : Symbols, out : Outcomes,
            pout : Outcomes, remote : RemoteIds] :
        /\ c.kind = "m_fields" => c.symbol = "AAPL"
        /\ c.kind # "symbol" => c.out = "ok"
        /\ (c.kind = "m_fields" \/ c.out # "ok") => c.pout = "ok"
        /\ (c.kind = "m_fields" \/ c.out # "ok" \/ c.pout # "ok")
              => c.remote = 501}

NextOrders ==
    \/ Tick
    \/ Starts("broker")
    \/ createorder
    \/ \E orderid \in OrderIdsIssued, c \in PlaceCases, initOk \in BOOLEAN :
          placeOrder(orderid, c.kind, c.symbol, initOk, c.out, c.pout,
                     c.remote)
    \/ \E orderid \in OrderIdsIssued, initOk \in BOOLEAN, out \in Outcomes :
          cancelOrder(orderid, initOk, out)

SpecOrders == Init /\ [][NextOrders]_vars

\* What the backend may answer for the accounts of AccountLists.
Accounts == {"U1", "U2"}
Summaries == {[cash |-> 100, value |-> 250], [cash |-> 250, value |-> 100]}
NoSummary == [cash |-> None, value |-> None]
SummaryAnswers == [Accounts -> Summaries \cup {NoSummary}]

NextAccount ==
    \/ Starts("broker")
    \/ Stops
    \/ Enables
    \/ \E answer \in SummaryAnswers : _update_account_info(answer)
    \/ \E initOk \in BOOLEAN, out \in Outcomes, amount \in Amounts :
          get_acc_cash(initOk, out, amount)
    \/ \E initOk \in BOOLEAN, out \in Outcomes, amount \in Amounts :
          get_acc_value(initOk, out, amount)
    \/ \E initOk \in BOOLEAN, out \in Outcomes, amount \in Amounts :
          reqAccountUpdates(initOk, out, amount)

SpecAccount == Init /\ [][NextAccount]_vars

\* The searches a call reads: none on a cache hit, the candidates only of a
\* search that succeeds.
SearchCases(c) ==
    IF CacheKey(MapperContracts[c]) \in DOMAIN contract_cache
    THEN {<<"ok", <<>>>>}
    ELSE {<<"ok", a>> : a \in SearchAnswers} \cup
         {<<"fail", <<>>>>, <<"raise", <<>>>>}

NextSession ==
    \/ Starts("broker")
    \/ Stops
    \/ Enables
    \/ \E health \in BOOLEAN : connectedCall(health)
    \/ clear_caches
    \/ \E c \in DOMAIN MapperContracts : \E sc \in SearchCases(c) :
          contract_to_conid(c, sc[1], sc[2])

SpecSession == Init /\ [][NextSession]_vars

NextIds ==
    \/ Tick
    \/ nextOrderId
    \/ createorder
    \/ \E st \in BOOLEAN : getTickerQueue(st)
    \/ \E tickerId \in TickerIds : reuseQueue(tickerId)

SpecIds == Init /\ [][NextIds]_vars

\* A reconnect every step of which succeeds.
StartsOk == start("broker", "ok", "ok", "ok", "ok", <<"U1">>)

NextOrderMap ==
    \/ Tick
    \/ createorder
    \/ \E ow \in {"ok", "raise"} :
          ~ws_client /\ enable_websocket_channels(ow, "ok")
    \/ \E orderid \in OrderIdsIssued, remote \in RemoteIds :
          recordOrderId(orderid, remote)

SpecOrderMap == Init /\ [][NextOrderMap]_vars

\* The steps of a caller's thread inside cancelQueue or cancelMktData.
CancellerStep ==
    \/ \E q \in Queues, sendnone \in BOOLEAN : cancelQueue_begin(q, sendnone)
    \/ cancelQueue_end
    \/ \E q \in Queues : cancelMktData_begin(q)
    \/ \E out \in {"ok", "raise"} : cancelMktData_unsubscribe(out)
    \/ cancelMktData_end

\* The steps of the message pump.
PumpStep ==
    \/ \E conid \in Conids : pump_while(conid)
    \/ pump_lookup
    \/ pump_put

\* The steps of the account poller.
PollerStep ==
    \/ poller_while
    \/ \E answer \in SummaryAnswers : poller_account_summary(answer)
    \/ poller_positions
    \/ poller_sleep

\* Callers that subscribe, renumber and cancel while the message pump runs.
NextThreads ==
    \/ ~ws_client /\ enable_websocket_channels("ok", "ok")
    \/ StartsOk
    \/ reqMktData("AAPL", "b'STK'", "", TRUE, "ok")
    \/ \E tickerId \in TickerIds : reuseQueue(tickerId)
    \/ CancellerStep
    \/ PumpStep

SpecThreads == Init /\ [][NextThreads]_vars

\* The session is started and stopped while the background threads and the
\* timer run.  Each thread that can take a step eventually takes one: the
\* threads are scheduled by the operating system, and get_message and the
\* requests to the backend are bounded by timeouts.
NextBackground ==
    \/ \E ow \in {"ok", "raise"} :
          ~ws_client /\ enable_websocket_channels(ow, "ok")
    \/ Starts("broker")
    \/ Stops
    \/ \E conid \in Conids : pump_while(conid)
    \/ pump_lookup
    \/ PollerStep
    \/ reqCurrentTime

SpecBackground ==
    Init /\ [][NextBackground]_vars /\ WF_vars(PumpStep) /\ WF_vars(PollerStep)

\* Orders are created and notified, and next() is called; a call of next()
\* that can take a turn of its loop eventually takes it.
NextBroker ==
    \/ Tick
    \/ createorder
    \/ buy
    \/ sell
    \/ \E cls \in {"Order", "IBOrder"}, status \in Statuses :
          notify(cls, status)
    \/ next_call
    \/ next_get
    \/ next_notify

SpecBroker == Init /\ [][NextBroker]_vars /\ WF_vars(next_loop)

\* Every operation of the model.
Next ==
    \/ NextRegistry
    \/ NextOrders
    \/ NextAccount
    \/ NextSession
    \/ NextData
    \/ nextOrderId
    \/ Starts("data")
    \/ NextOrderMap
    \/ NextThreads
    \/ NextBackground
    \/ NextBroker

Spec == Init /\ [][Next]_vars

(***************************************************************************)
(* Properties.                                                             *)
(***************************************************************************)

\* Number of None items in a queue's contents.
RECURSIVE Nones(_)
Nones(c) == IF c = <<>> THEN 0
            ELSE (IF Head(c) = NoneMsg THEN 1 ELSE 0) + Nones(Tail(c))

\* C1: after every getTickerQueue / cancelQueue call the maps qs and ts are
\* exact inverses: qs[i] = q if and only if ts[q] = i.
C1_Bijection ==
    /\ \A i \in DOMAIN qs : qs[i] \in DOMAIN ts /\ ts[qs[i]] = i
    /\ \A q \in DOMAIN ts : ts[q] \in DOMAIN qs /\ qs[ts[q]] = q

\* A registered queue was cancelled while another binding is still live.
C1_Witness ==
    /\ last.op = "cancelQueue"
    /\ last.bound
    /\ Cardinality(DOMAIN qs) >= 1
    /\ Cardinality(DOMAIN ts) >= 1

\* C6: cancelQueue(q, sendnone=True) on a registered queue q puts exactly
\* one None on q (and nothing else) and removes its binding, so that
\* validQueue(q) is false afterwards.
C6_CancelSendsOneNone ==
    [][(last'.op = "cancelQueue" /\ last'.flag /\ validQueue(last'.q)) =>
          /\ qc'[last'.q] = Append(qc[last'.q], NoneMsg)
          /\ Nones(qc'[last'.q]) = Nones(qc[last'.q]) + 1
          /\ \A k \in Queues \ {last'.q} : qc'[k] = qc[k]
          /\ last'.q \notin DOMAIN ts'
          /\ ts[last'.q] \notin DOMAIN qs'
          /\ ts[last'.q] \notin DOMAIN iscash']_vars

\* A registered queue was cancelled with sendnone and now ends with None.
C6_Witness ==
    /\ last.op = "cancelQueue"
    /\ last.flag
    /\ last.bound
    /\ ~validQueue(last.q)
    /\ Nones(qc[last.q]) = 1

\* C7: cancelQueue on a queue that is not registered changes nothing: qs, ts,
\* iscash and the contents of the queues are as before, whatever sendnone.
C7_UnknownCancelIsNoOp ==
    [][(last'.op = "cancelQueue" /\ ~validQueue(last'.q)) =>
          UNCHANGED <<qs, ts, iscash, qc>>]_vars

\* C7 as amended: cancelQueue on a queue that is not registered leaves qs,
\* ts and iscash as they are; the contents of the queue are unchanged
\* without sendnone, and with sendnone exactly one None is appended to it;
\* no other queue changes.
C7_UnknownCancelKeepsRegistry ==
    [][(last'.op = "cancelQueue" /\ ~validQueue(last'.q)) =>
          /\ UNCHANGED <<qs, ts, iscash, _tickerId, nq>>
          /\ qc'[last'.q] = IF last'.flag THEN Append(qc[last'.q], NoneMsg)
                            ELSE qc[last'.q]
          /\ \A k \in Queues \ {last'.q} : qc'[k] = qc[k]]_vars

\* A queue that was not registered was cancelled with sendnone and holds the
\* None of that call.
C7_Witness ==
    /\ last.op = "cancelQueue"
    /\ ~last.bound
    /\ last.flag
    /\ qc[last.q] # <<>>
    /\ qc[last.q][Len(qc[last.q])] = NoneMsg

\* C8: reuseQueue(i) for an id i bound to queue q returns (j, q) with j
\* greater than every id issued before, binds q to j in both maps, gives j
\* the cash flag i had, and leaves i unbound.
C8_ReuseKeepsQueueAndFlag ==
    [][(last'.op = "reuseQueue" /\ last'.tickerId \in DOMAIN qs) =>
          LET i == last'.tickerId
              j == last'.retId
          IN  /\ last'.retQ = qs[i]
              /\ \A k \in REQIDBASE..(_tickerId - 1) : j > k
              /\ \A k \in DOMAIN qs : j > k
              /\ qs'[j] = qs[i]
              /\ ts'[qs[i]] = j
              /\ iscash'[j] = iscash[i]
              /\ i \notin DOMAIN qs'
              /\ i \notin DOMAIN iscash']_vars

\* A cash (ask) subscription was renumbered and kept its flag.
C8_Witness ==
    /\ last.op = "reuseQueue"
    /\ last.bound
    /\ last.retQ \in Queues
    /\ iscash[last.retId] = 2

\* The status event placeOrder is to deliver for an accepted order.
SubmittedEvent(orderid) ==
    [kind |-> "orderstatus", orderId |-> orderid, status |-> "Submitted"]

\* The error event placeOrder is to deliver for an order that failed.
ErrorEvent(orderid) ==
    [kind |-> "ordererror", orderId |-> orderid, status |-> "201"]

\* C2: when placeOrder is called with a broker attached and the backend
\* accepts the order with remote id r, the store records orderid -> r and
\* r -> orderid and delivers exactly one 'Submitted' status event for orderid.
C2_AcceptedOrderRecordedAndNotified ==
    (last.op = "placeOrder" /\ last.attached /\ last.outcome = "ok") =>
        /\ last.orderid \in DOMAIN order_id_mapping
        /\ order_id_mapping[last.orderid] = last.ret
        /\ last.ret \in DOMAIN reverse_mapping
        /\ reverse_mapping[last.ret] = last.orderid
        /\ last.events = <<SubmittedEvent(last.orderid)>>

\* C3: when the backend rejects the order or a step of placeOrder raises,
\* the store delivers exactly one error event for orderid to the attached
\* broker, records no id mapping, and nothing propagates to the caller.
C3_FailedOrderNotifiedOnce ==
    [][(last'.op = "placeOrder" /\ last'.attached /\ last'.outcome # "ok") =>
          /\ last'.events = <<ErrorEvent(last'.orderid)>>
          /\ UNCHANGED <<order_id_mapping, reverse_mapping>>
          /\ ~last'.raised]_vars

\* C4: the values nextOrderId returns are strictly increasing and start at 1,
\* and every order the broker created is stored under a ref of its own.
C4_OrderIdsIncreaseFromOne ==
    /\ Len(orderIds) >= 1 => orderIds[1] = 1
    /\ \A i, j \in 1..Len(orderIds) : i < j => orderIds[i] < orderIds[j]
    /\ Cardinality(DOMAIN orderbyid) = norders

\* C5: ticker ids are issued from REQIDBASE upward and no ticker id issued
\* equals an order id nextOrderId has returned.
C5_TickerIdsApartFromOrderIds ==
    /\ _tickerId >= REQIDBASE
    /\ \A t \in DOMAIN qs : t >= REQIDBASE
    /\ \A k \in 1..Len(orderIds) :
          orderIds[k] \notin REQIDBASE..(_tickerId - 1)

\* C9: cancelOrder for a local id without a recorded remote id sends no
\* request to the backend, delivers no event, raises nothing and leaves the
\* order-id mapping as it is.
C9_UnknownCancelSendsNothing ==
    [][(last'.op = "cancelOrder" /\
        last'.orderid \notin DOMAIN order_id_mapping) =>
          /\ last'.requests = <<>>
          /\ last'.events = <<>>
          /\ ~last'.raised
          /\ UNCHANGED <<order_id_mapping, reverse_mapping>>]_vars

\* C10: get_acc_cash / get_acc_value called on a connected store return only
\* once the 'account data downloaded' event is set, and then return the
\* cached value (of the single managed account, else the sum over the
\* accounts) without a request to the backend.
RECURSIVE SumOver(_, _)
SumOver(m, S) ==
    IF S = {} THEN 0
    ELSE LET a == CHOOSE x \in S : TRUE IN m[a] + SumOver(m, S \ {a})

Cached(m) ==
    IF managed_accounts = <<>> THEN 0
    ELSE IF Len(managed_accounts) > 1 THEN SumOver(m, DOMAIN m)
    ELSE Get(m, managed_accounts[1])

C10_AccessorWaitsThenServesCache ==
    /\ (last.op = "get_acc_cash" /\ last.connected) =>
          /\ _event_accdownload
          /\ last.requests = <<>>
          /\ last.ret = Cached(acc_cash)
    /\ (last.op = "get_acc_value" /\ last.connected) =>
          /\ _event_accdownload
          /\ last.requests = <<>>
          /\ last.ret = Cached(acc_value)

\* C11: stop() runs to completion whatever the close of the WebSocket or of
\* the REST client does, and when it returns the running flag is cleared and
\* both the 'managed accounts' and the 'account download' event are set; an
\* event that is set is never cleared, so a thread waiting on it proceeds.
C11_StopSetsBothEvents ==
    [][/\ last'.op = "stop" =>
             /\ ~last'.raised
             /\ ~_running'
             /\ _event_managed_accounts'
             /\ _event_accdownload'
       /\ _event_managed_accounts => _event_managed_accounts'
       /\ _event_accdownload => _event_accdownload']_vars

\* stop() has returned after a close that raised, with both events set.
C11_Witness ==
    /\ last.op = "stop"
    /\ last.outcome = "raise"
    /\ ~last.raised
    /\ _event_managed_accounts
    /\ _event_accdownload

C13_FailedConnectTripsLatch ==
    [][(last'.op = "start" /\ ~last'.flag) => dontreconnect']_vars

\* C14: connected() answers true only after a health check the backend
\* answered, and false while no session is running (before one was
\* established, and after stop()).
C14_ConnectedIsHealthCheck ==
    last.op = "connected" =>
        /\ last.connected =>
              (last.flag /\ last.requests = <<"check_health">>)
        /\ ~_running => ~last.connected

\* The candidate C17 names: the first whose exchange is the requested one,
\* else the first of the list.
RECURSIVE ExactMatch(_, _, _)
ExactMatch(cands, exchange, k) ==
    IF k > Len(cands) THEN cands[1]
    ELSE IF cands[k].exchange = exchange THEN cands[k]
    ELSE ExactMatch(cands, exchange, k + 1)

\* The logical (symbol, security type, exchange) of each of MapperContracts.
LogicalKey(c) ==
    IF c \in {1, 2} THEN <<"IBM", "STK", "SMART">>
    ELSE IF c \in {3, 4} THEN <<"IBM", "STK", "NYSE">>
    ELSE <<"IBM", "STK", "ARCA">>

\* C17 as the spec has it: of several candidates contract_to_conid returns
\* the one whose exchange equals the requested exchange if there is one, and
\* otherwise the first candidate.
C17_ExactExchangeElseFirst ==
    (/\ last.op = "contract_to_conid"
     /\ ~last.bound
     /\ last.outcome = "ok"
     /\ last.candidates # <<>>
     /\ \A k \in DOMAIN last.candidates :
           "conid" \in DOMAIN last.candidates[k]) =>
        last.conid = Str(ExactMatch(last.candidates,
                                    LogicalKey(last.contract)[3], 1).conid)

\* C17 as amended: when the requested exchange is 'SMART' contract_to_conid
\* returns the first candidate of the list whatever its exchange; otherwise
\* it returns the first candidate whose exchange equals the requested one,
\* and the first candidate of the list if there is none.
C17_SmartTakesFirstElseExact ==
    (/\ last.op = "contract_to_conid"
     /\ ~last.bound
     /\ last.outcome = "ok"
     /\ last.candidates # <<>>
     /\ \A k \in DOMAIN last.candidates :
           "conid" \in DOMAIN last.candidates[k]) =>
        LET exchange == LogicalKey(last.contract)[3] IN
        last.conid =
           Str((IF exchange = "SMART" THEN last.candidates[1]
                ELSE ExactMatch(last.candidates, exchange, 1)).conid)

\* 'SMART' was requested, the candidates are on NYSE and SMART in this
\* order, and the NYSE candidate was returned.
C17_Witness ==
    /\ last.op = "contract_to_conid"
    /\ LogicalKey(last.contract)[3] = "SMART"
    /\ Len(last.candidates) = 2
    /\ last.candidates[1].exchange = "NYSE"
    /\ last.candidates[2].exchange = "SMART"
    /\ last.conid = "11"

\* C18: a resolution that succeeds is cached under the logical key of the
\* contract, whether its fields are bytes or text, and a resolution of a
\* contract whose logical key is cached sends no search and returns the
\* cached id.
C18_SecondResolutionIsCacheHit ==
    [][last'.op = "contract_to_conid" =>
          LET key == LogicalKey(last'.contract) IN
          /\ key \in DOMAIN contract_cache =>
                /\ last'.requests = <<>>
                /\ last'.conid = contract_cache[key]
                /\ UNCHANGED <<contract_cache, conid_cache>>
          /\ last'.conid # "" =>
                /\ key \in DOMAIN contract_cache'
                /\ contract_cache'[key] = last'.conid
          /\ key \notin DOMAIN contract_cache =>
                last'.requests = <<"search_contract_by_symbol">>]_vars

\* A contract given as bytes was resolved from the cache.
C18_Witness ==
    /\ last.op = "contract_to_conid"
    /\ last.contract = 2
    /\ last.bound
    /\ last.requests = <<>>
    /\ last.conid # ""

\* C19: when the search raises, reports failure or returns no candidate,
\* contract_to_conid raises nothing, returns None and leaves both caches as
\* they were.
C19_FailedSearchIsNotFound ==
    [][(/\ last'.op = "contract_to_conid"
        /\ ~last'.bound
        /\ (last'.outcome \in {"fail", "raise"} \/ last'.candidates = <<>>))
          =>
          /\ ~last'.raised
          /\ last'.conid = ""
          /\ UNCHANGED <<contract_cache, conid_cache>>]_vars

\* A search that raised ended in not-found, with something in the cache.
C19_Witness ==
    /\ last.op = "contract_to_conid"
    /\ last.outcome = "raise"
    /\ last.conid = ""
    /\ contract_cache # Empty

\* C20: an entry of the mapper's forward or reverse cache is never removed
\* or replaced by a later operation of the store.
C20_ResolvedIdsAreRetained ==
    [][/\ \A k \in DOMAIN contract_cache :
             k \in DOMAIN contract_cache' /\
             contract_cache'[k] = contract_cache[k]
       /\ \A k \in DOMAIN conid_cache :
             k \in DOMAIN conid_cache' /\
             conid_cache'[k] = conid_cache[k]]_vars

\* C15 as the spec has it: a fetch of n bars puts n + 1 messages on the
\* returned queue, the n bars in order with date, open, high, low, close and
\* volume equal to the fields of the record, then one end-of-replay message.
C15_BarsCopiedVerbatim ==
    (last.op = "reqHistoricalData" /\ last.outcome = "fetched") =>
        LET q == last.retQ  bars == last.msgs IN
        /\ Len(qc[q]) = Len(bars) + 1
        /\ \A k \in 1..Len(bars) :
              /\ k \in DOMAIN qc[q]
              /\ qc[q][k].kind = "HistoricalData"
              /\ qc[q][k].date = bars[k].t
              /\ qc[q][k].open = bars[k].o /\ qc[q][k].high = bars[k].h
              /\ qc[q][k].low = bars[k].l /\ qc[q][k].close = bars[k].c
              /\ qc[q][k].volume = bars[k].v
        /\ qc[q][Len(qc[q])] = FinishedMsg(last.retId)

\* C15 as amended: a fetch that returns n bars, n >= 1 or the answer a dict
\* holding the list, puts n + 1 messages on the returned queue: the n bars in
\* order, open, high, low, close and volume copied and date the datetime of
\* the record's millisecond timestamp, then the end marker; the queue stays
\* registered.  A fetch that returns an empty list puts one None and
\* unregisters the queue.
C15_BarsThenEndMarker ==
    [][(last'.op = "reqHistoricalData" /\ last'.outcome = "fetched") =>
          LET q == last'.retQ  bars == last'.msgs  id == last'.retId IN
          IF last'.flag \/ bars # <<>>
          THEN /\ Len(qc'[q]) = Len(bars) + 1
               /\ \A k \in 1..Len(bars) :
                     qc'[q][k] =
                        [kind |-> "HistoricalData", reqId |-> id,
                         date |-> [type |-> "datetime",
                                   second |-> bars[k].t.ms \div 1000,
                                   microsecond |->
                                      (bars[k].t.ms % 1000) * 1000],
                         open |-> bars[k].o, high |-> bars[k].h,
                         low |-> bars[k].l, close |-> bars[k].c,
                         volume |-> bars[k].v]
               /\ qc'[q][Len(bars) + 1] =
                     [kind |-> "HistoricalData", reqId |-> id,
                      date |-> <<"finished-", id>>]
               /\ q \in DOMAIN ts' /\ ts'[q] = id /\ qs'[id] = q
          ELSE /\ qc'[q] = <<NoneMsg>>
               /\ q \notin DOMAIN ts' /\ id \notin DOMAIN qs']_vars

\* A fetch of MaxBars bars has been delivered.
C15_Witness ==
    /\ last.op = "reqHistoricalData"
    /\ last.outcome = "fetched"
    /\ Len(last.msgs) = MaxBars
    /\ Len(qc[last.retQ]) = MaxBars + 1

\* C16: when the symbol cannot be resolved, reqMktData and reqHistoricalData
\* raise nothing and return a new queue that holds exactly one None and is
\* not registered; no ticker id is issued, the registry is as it was and no
\* data request is sent.
C16_UnresolvedReturnsTerminatedQueue ==
    [][(last'.op \in {"reqMktData", "reqHistoricalData"} /\
        last'.outcome = "unresolved") =>
          /\ ~last'.raised
          /\ last'.retQ \notin Queues
          /\ qc'[last'.retQ] = <<NoneMsg>>
          /\ last'.retQ \notin DOMAIN ts'
          /\ UNCHANGED <<qs, ts, iscash, _tickerId, mktdata>>
          /\ \A k \in DOMAIN last'.requests :
                last'.requests[k] = "stock_conid_by_symbol"]_vars

\* reqHistoricalData has returned for a symbol the backend does not know.
C16_Witness ==
    /\ last.op = "reqHistoricalData"
    /\ last.outcome = "unresolved"
    /\ last.symbol = "AAPL"
    /\ last.requests = <<"stock_conid_by_symbol">>
    /\ qc[last.retQ] = <<NoneMsg>>

C22_RegistryUpdatedUnderLock ==
    [][/\ (canceller' # canceller /\ <<qs, ts, iscash>>' # <<qs, ts, iscash>>)
             => _lock_q = "canceller"
       /\ (canceller.pc # "idle" /\ canceller'.pc = "idle") =>
             /\ canceller.q \notin DOMAIN ts'
             /\ \A id \in DOMAIN qs' : qs'[id] # canceller.q
             /\ \A id \in DOMAIN qs' :
                   qs'[id] \in DOMAIN ts' /\ ts'[qs'[id]] = id
             /\ \A q \in DOMAIN ts' :
                   ts'[q] \in DOMAIN qs' /\ qs'[ts'[q]] = q]_vars

\* C23: no thread holds _lock_q, _lock_accupd or _lock_pos while it calls
\* the backend or puts an item on a delivery queue.
C23_NoLockHeldAcrossCall ==
    /\ canceller.pc \in {"unsubscribe", "cancelQueue"}
          => _lock_q # "canceller"
    /\ poller.pc = "account_summary" => _lock_accupd # "poller"
    /\ poller.pc = "positions" => _lock_pos # "poller"

\* The two background threads are not running.
ThreadsEnded ==
    /\ pump.pc \in {"none", "exited"}
    /\ poller.pc \in {"none", "exited"}

\* C24: if the running flag is cleared and stays clear, the message pump and
\* the account poller both end; and while the flag stays clear a poller that
\* sleeps, or is back at the head of its loop, starts no other refresh.
C24_LoopsEndAfterStop ==
    /\ [][(~_running /\ ~_running' /\ poller.pc \in {"sleep", "while"})
             => poller'.pc \in {"sleep", "while", "exited"}]_vars
    /\ (<>[](~_running)) => <>[]ThreadsEnded

\* Both threads have ended after a stop.
C24_Witness ==
    /\ last.op = "stop"
    /\ ~_running
    /\ pump.pc = "exited"
    /\ poller.pc = "exited"

\* C25: once cancelMktData(q) has put the None on q, no market-data message
\* is put on q (checked for as long as that call is the most recent one).
C25_NothingAfterCancelSentinel ==
    [][(last.op = "cancelMktData" /\ ~last.raised) =>
          ~(/\ Len(qc'[last.q]) > Len(qc[last.q])
            /\ qc'[last.q][Len(qc'[last.q])].kind = "RTVolume")]_vars

\* C26: a message of an instrument is routed to every registered queue that
\* is subscribed to the instrument.
C26_EverySubscriptionServed ==
    [][(pump.pc = "process" /\ pump'.pc # "process") =>
          \A id \in DOMAIN ws_subscriptions :
             (ws_subscriptions[id] = pump.conid /\ id \in DOMAIN qs /\
              qs[id] \in Queues)
                => (pump'.pc = "put" /\ pump'.q = qs[id])]_vars

\* C27: a call of next() returns.
C27_NextReturns == (next_pc.pc = "get") ~> (next_pc.pc = "idle")

\* C28: an order created by buy is a buy order and not a sell order, and an
\* order created by sell is a sell order and not a buy order.
C28_TypeAgreesWithAction ==
    \A k \in 1..Len(orderinfo) :
       /\ orderinfo[k].via = "buy" =>
             (isbuy(orderinfo[k].order) /\ ~issell(orderinfo[k].order))
       /\ orderinfo[k].via = "sell" =>
             (issell(orderinfo[k].order) /\ ~isbuy(orderinfo[k].order))

\* C29: once stop() has returned, reqCurrentTime is not run (checked for the
\* step that follows the return of stop).
C29_NoTimeRefreshAfterStop ==
    [][last.op = "stop" => last'.op # "reqCurrentTime"]_vars

\* C30: every ticker id of qs is bound to a queue object and every key of ts
\* is a queue object.
C30_RegistryHoldsQueues ==
    /\ \A id \in DOMAIN qs : qs[id] \in Queues
    /\ \A q \in DOMAIN ts : q \in Queues

=============================================================================
